---- MODULE Spec2Model ----
(***************************************************************************)
(* CircuitAR: the circuit graph manager (CircuitGraphManager) and the      *)
(* Component scripts that register with it.  The manager keeps the list of *)
(* component names, the list of connections, the switch states and the     *)
(* powered map; every connection change and every switch update recomputes *)
(* the powered map from the cycles found by a depth-first search.          *)
(***************************************************************************)
EXTENDS Integers, Sequences, FiniteSets, TLC

VARIABLES components, connections, startConnection, powered, switchStatus,
          componentInstances, lastOp

vars == <<components, connections, startConnection, powered, switchStatus,
          componentInstances, lastOp>>

\* The scene around the manager: the static CircuitGraphManager.instance, the
\* onAwake/destroy calls made on manager objects so far, the Component
\* objects that are awake, and the fields of a LightToggler.
VARIABLES instance, managerCalls, objects, lightToggler

VARIABLES simpleSnap, wireSnap, dynamicSnap

snapVars == <<simpleSnap, wireSnap, dynamicSnap>>

sceneVars == <<instance, managerCalls, objects, lightToggler, snapVars>>

allVars == <<vars, sceneVars>>

----------------------------------------------------------------------------
(* The scene: the Component scripts that exist, each on a named scene      *)
(* object, with the type set in the Inspector.                             *)

Names == {"A", "B", "C", "D"}

\* Array.prototype.sort() on strings: the names in ascending order.
SortOrder == <<"A", "B", "C", "D">>

Component(n, t) == [name |-> n, type |-> t]

\* The Component scripts of the scene.  The name B is carried by two scene
\* objects, one with an LED script and one with a Switch script.
SceneComponents ==
    { Component("A", "Battery"),
      Component("B", "LED"), Component("B", "Switch"),
      Component("C", "LED") }

\* The names Component.onDestroy passes to unregisterComponent and the
\* snapping layer passes to removeConnections.
SceneNames == {"A", "B", "C"}

\* The pairs the snapping layer passes to addConnection / removeConnection.
ConnInputs ==
    { <<"A", "B">>, <<"B", "C">>, <<"C", "A">>, <<"B", "A">>,
      <<"A", "A">> }

\* The names the toggle UI passes to update.
UpdateInputs == {"B"}

null == "null"

\* The manager objects of the scene.
ManagerObjects == {"M1", "M2", "M3"}

\* A LightToggler before its onAwake: the field initialisers, and both light
\* objects enabled as authored.
NewLightToggler ==
    [awake |-> FALSE, componentName |-> "", previousPoweredState |-> FALSE,
     hasValidLightObjects |-> FALSE, lightObject |-> TRUE,
     lightOffObject |-> TRUE]

\* A SimpleSnapBehavior before any event: the field initialisers.  Two
\* history fields stand next to them: touching, the objects for which an
\* overlap-enter was received and no overlap-exit since, in the order of
\* their entering, and snappedTo, the object to whose position the last
\* handleDragEnd moved this one (null when it moved nothing).  lastEvent
\* and lastOther name the last event delivered and the other object of an
\* overlap event.
NewSimpleSnap ==
    [isActive |-> FALSE, currentOverlappingTargets |-> <<>>,
     touching |-> <<>>, snappedTo |-> null, lastEvent |-> "none",
     lastOther |-> null]

\* A WireSnapBehavior before any event, with the history fields touching and
\* snappedTo of each of its two connector spheres, lastEvent and lastOther.
NewWireSnap ==
    [isDragging |-> FALSE, activeDragSource |-> null,
     firstSphereOverlappingTargets |-> <<>>,
     secondSphereOverlappingTargets |-> <<>>,
     firstTouching |-> <<>>, secondTouching |-> <<>>,
     firstSnappedTo |-> null, secondSnappedTo |-> null,
     lastEvent |-> "none", lastOther |-> null]

\* The variables of DynamicSnapAnyCollider as declared, with the history
\* fields startedBy, the touch that started the drag in progress (-1 when
\* there is none), snappedTo, lastEvent, lastTouchId and lastOther.
NewDynamicSnap ==
    [isDragging |-> FALSE, touchId |-> -1, currentOverlappingTargets |-> <<>>,
     startedBy |-> -1, snappedTo |-> null, lastEvent |-> "none",
     lastTouchId |-> -1, lastOther |-> null]

\* No snap script has received an event.
SnapInit ==
    /\ simpleSnap = NewSimpleSnap
    /\ wireSnap = NewWireSnap
    /\ dynamicSnap = NewDynamicSnap

\* The Component objects of the scene before any onAwake: objects maps each
\* to "new", "awake" (its onAwake has run) or "destroyed".
NewObjects == [o \in SceneComponents |-> "new"]

\* The scene of the specifications that follow only the manager: the manager
\* M1 is awake and is the instance; the lifecycles of the Component objects
\* and the LightToggler are not followed.
SceneInit ==
    /\ instance = "M1"
    /\ managerCalls = << <<"onAwake", "M1">> >>
    /\ objects = NewObjects
    /\ lightToggler = NewLightToggler
    /\ SnapInit

----------------------------------------------------------------------------
(* Helpers on arrays and maps                                              *)

Range(s) == { s[i] : i \in 1..Len(s) }

\* Array.prototype.includes
includes(s, x) == \E i \in 1..Len(s) : s[i] = x

\* Map.prototype.has / key lookup of an object used as a map
has(m, k) == k \in DOMAIN m

\* m with m[k] = v set (Map.prototype.set, obj[k] = v)
set(m, k, v) == [x \in (DOMAIN m) \cup {k} |-> IF x = k THEN v ELSE m[x]]

\* Map.prototype.delete
delete(m, k) == [x \in (DOMAIN m) \ {k} |-> m[x]]

EmptyMap == [x \in {} |-> TRUE]

\* [...cycle].sort().join(','): the names of the cycle in ascending order
normalize(cycle) == SelectSeq(SortOrder, LAMBDA x : x \in Range(cycle))

----------------------------------------------------------------------------
(* addComponent: push the name unless the list already includes it         *)

\* an addComponent that pushes without the includes test
addComponent_withoutIncludesTest(comps, componentName) ==
    Append(comps, componentName)

addComponent(comps, componentName) ==
    IF includes(comps, componentName) THEN comps
    ELSE Append(comps, componentName)

(* getNeighbors: the other endpoint of every connection touching the name, *)
(* in the order of the connections list                                    *)

RECURSIVE getNeighborsFrom(_, _, _)
getNeighborsFrom(conns, componentName, i) ==
    IF i > Len(conns) THEN <<>>
    ELSE LET rest == getNeighborsFrom(conns, componentName, i + 1)
         IN  IF conns[i][1] = componentName THEN <<conns[i][2]>> \o rest
             ELSE IF conns[i][2] = componentName THEN <<conns[i][1]>> \o rest
             ELSE rest

getNeighbors(conns, componentName) == getNeighborsFrom(conns, componentName, 1)

----------------------------------------------------------------------------
(* findCycles / findCyclesDFS.  The traversal state st is the record of    *)
(* the four collections the recursion shares: visited, recursionStack,     *)
(* parentMap and cycles.  parentMap[n] = null stands for a name the Map    *)
(* has no entry for (parentMap.get(n) ?? null).                            *)
(* Two history fields record the run: entries, the nodes findCyclesDFS     *)
(* was called on, in order, and walks, for every back edge the pair of the *)
(* back-edge target and the node at which the parent walk stopped.         *)

\* the while loop of findCyclesDFS: walk the parent pointers from node back
\* to neighbor, unshifting each node; the result is <<cycle, currentNode>>
RECURSIVE walkParents(_, _, _, _)
walkParents(currentNode, neighbor, parentMap, cycle) ==
    IF currentNode # null /\ currentNode # neighbor
    THEN walkParents(parentMap[currentNode], neighbor, parentMap,
                     <<currentNode>> \o cycle)
    ELSE <<cycle, currentNode>>

\* a cycle pushed without cycle.unshift(neighbor)
cycleDetected_withoutNeighbor(node, neighbor, st) ==
    LET w == walkParents(node, neighbor, st.parentMap, <<>>)
        cycle == w[1]
        normalizedCycle == normalize(cycle)
        walked == [st EXCEPT !.walks = Append(@, <<neighbor, w[2]>>)]
    IN  IF w[2] = neighbor
           /\ ~ \E i \in 1..Len(st.cycles) :
                   normalize(st.cycles[i]) = normalizedCycle
        THEN [walked EXCEPT !.cycles = Append(@, cycle)]
        ELSE walked

\* the body of "if (recursionStack.has(neighbor))"
cycleDetected(node, neighbor, st) ==
    LET w == walkParents(node, neighbor, st.parentMap, <<>>)
        cycle == <<neighbor>> \o w[1]
        normalizedCycle == normalize(cycle)
        walked == [st EXCEPT !.walks = Append(@, <<neighbor, w[2]>>)]
    IN  IF w[2] = neighbor
           /\ ~ \E i \in 1..Len(st.cycles) :
                   normalize(st.cycles[i]) = normalizedCycle
        THEN [walked EXCEPT !.cycles = Append(@, cycle)]
        ELSE walked

RECURSIVE findCyclesDFS(_, _, _)
RECURSIVE forNeighbors(_, _, _, _, _)

\* a neighbor loop without the test against the immediate parent
forNeighbors_withoutParentSkip(conns, node, neighbors, i, st) ==
    IF i > Len(neighbors) THEN st
    ELSE LET neighbor == neighbors[i] IN
         IF neighbor \in st.recursionStack
         THEN forNeighbors(conns, node, neighbors, i + 1,
                           cycleDetected(node, neighbor, st))
         ELSE IF neighbor \notin st.visited
         THEN forNeighbors(conns, node, neighbors, i + 1,
                  findCyclesDFS(conns, neighbor,
                      [st EXCEPT !.parentMap[neighbor] = node]))
         ELSE forNeighbors(conns, node, neighbors, i + 1, st)

forNeighbors(conns, node, neighbors, i, st) ==
    IF i > Len(neighbors) THEN st
    ELSE LET neighbor == neighbors[i] IN
         IF neighbor = st.parentMap[node]
         THEN forNeighbors(conns, node, neighbors, i + 1, st)
         ELSE IF neighbor \in st.recursionStack
         THEN forNeighbors(conns, node, neighbors, i + 1,
                           cycleDetected(node, neighbor, st))
         ELSE IF neighbor \notin st.visited
         THEN forNeighbors(conns, node, neighbors, i + 1,
                  findCyclesDFS(conns, neighbor,
                      [st EXCEPT !.parentMap[neighbor] = node]))
         ELSE forNeighbors(conns, node, neighbors, i + 1, st)

findCyclesDFS(conns, node, st) ==
    LET entered == [st EXCEPT !.visited = @ \cup {node},
                              !.recursionStack = @ \cup {node},
                              !.entries = Append(@, node)]
        after == forNeighbors(conns, node, getNeighbors(conns, node), 1, entered)
    IN  [after EXCEPT !.recursionStack = @ \ {node}]

RECURSIVE forComponents(_, _, _, _)
\* a loop over the components that starts a traversal at every one of them
forComponents_withoutVisitedTest(comps, conns, i, st) ==
    IF i > Len(comps) THEN st
    ELSE forComponents(comps, conns, i + 1,
             findCyclesDFS(conns, comps[i], st))

forComponents(comps, conns, i, st) ==
    IF i > Len(comps) THEN st
    ELSE forComponents(comps, conns, i + 1,
             IF comps[i] \notin st.visited
             THEN findCyclesDFS(conns, comps[i], st)
             ELSE st)

findCyclesState(comps, conns) ==
    forComponents(comps, conns, 1,
        [visited |-> {}, recursionStack |-> {}, cycles |-> <<>>,
         parentMap |-> [n \in Names |-> null],
         entries |-> <<>>, walks |-> <<>>])

\* the traversal state created anew for every component of the loop and the
\* cycles of all the traversals concatenated
RECURSIVE cyclesFromEachRoot(_, _, _)
cyclesFromEachRoot(comps, conns, i) ==
    IF i > Len(comps) THEN <<>>
    ELSE findCyclesDFS(conns, comps[i],
             [visited |-> {}, recursionStack |-> {}, cycles |-> <<>>,
              parentMap |-> [n \in Names |-> null],
              entries |-> <<>>, walks |-> <<>>]).cycles
         \o cyclesFromEachRoot(comps, conns, i + 1)

findCycles_fromEveryComponent(comps, conns) == cyclesFromEachRoot(comps, conns, 1)

findCycles(comps, conns) == findCyclesState(comps, conns).cycles

----------------------------------------------------------------------------
(* updatePower                                                             *)

\* switchStatus[name], undefined read as false
switchOn(status, name) == has(status, name) /\ status[name]

\* first pass over one cycle: <<hasBattery, cycleBrokenBySwitch>>
RECURSIVE firstPass(_, _, _, _, _, _)
\* a first pass that assigns hasBattery at every component instead of
\* setting it once
firstPass_lastTypeWins(cycle, i, insts, status, hasBattery, cycleBrokenBySwitch) ==
    IF i > Len(cycle) THEN <<hasBattery, cycleBrokenBySwitch>>
    ELSE IF ~ has(insts, cycle[i])
         THEN firstPass(cycle, i + 1, insts, status, hasBattery,
                        cycleBrokenBySwitch)
         ELSE LET componentInstance == insts[cycle[i]] IN
              firstPass(cycle, i + 1, insts, status,
                  componentInstance.type = "Battery",
                  IF componentInstance.type = "Switch"
                  THEN ~ switchOn(status, componentInstance.name)
                  ELSE cycleBrokenBySwitch)

firstPass(cycle, i, insts, status, hasBattery, cycleBrokenBySwitch) ==
    IF i > Len(cycle) THEN <<hasBattery, cycleBrokenBySwitch>>
    ELSE IF ~ has(insts, cycle[i])
         THEN firstPass(cycle, i + 1, insts, status, hasBattery,
                        cycleBrokenBySwitch)
         ELSE LET componentInstance == insts[cycle[i]] IN
              firstPass(cycle, i + 1, insts, status,
                  hasBattery \/ componentInstance.type = "Battery",
                  IF componentInstance.type = "Switch"
                  THEN ~ switchOn(status, componentInstance.name)
                  ELSE cycleBrokenBySwitch)

cyclePowers(cycle, insts, status) ==
    LET r == firstPass(cycle, 1, insts, status, FALSE, FALSE)
    IN  r[1] /\ ~ r[2]

\* a second pass without the componentInstances.has test
cycleContribution_withoutHasTest(cycle, insts, status) ==
    IF cyclePowers(cycle, insts, status) THEN Range(cycle) ELSE {}

\* the second pass over one cycle: the names it adds to componentsInPoweredCycles
cycleContribution(cycle, insts, status) ==
    IF cyclePowers(cycle, insts, status)
    THEN { componentName \in Range(cycle) : has(insts, componentName) }
    ELSE {}

componentsInPoweredCycles(cycles, insts, status) ==
    UNION { cycleContribution(cycles[i], insts, status) : i \in 1..Len(cycles) }

updatePower(cycles, comps, insts, status) ==
    LET inPoweredCycles == componentsInPoweredCycles(cycles, insts, status)
    IN  [ componentName \in Range(comps) |-> componentName \in inPoweredCycles ]

\* this.updatePower(this.findCycles())
recompute(comps, conns, insts, status) ==
    updatePower(findCycles(comps, conns), comps, insts, status)

----------------------------------------------------------------------------
(* State after construction                                                *)

Init ==
    /\ components = <<>>
    /\ connections = <<>>
    /\ startConnection = null
    /\ powered = EmptyMap
    /\ switchStatus = EmptyMap
    /\ componentInstances = EmptyMap
    /\ lastOp = "init"
    /\ SceneInit

----------------------------------------------------------------------------
(* Operations                                                              *)

\* a registerComponent that sets the instance whether or not the name has one
registerComponent_withoutHasTest(component) ==
    LET name == component.name IN
    /\ componentInstances' = set(componentInstances, name, component)
    /\ components' = addComponent(components, name)
    /\ lastOp' = "registerComponent"
    /\ UNCHANGED <<connections, startConnection, powered, switchStatus>>

registerComponent(component) ==
    LET name == component.name IN
    /\ IF ~ has(componentInstances, name)
       THEN /\ componentInstances' = set(componentInstances, name, component)
            /\ components' = addComponent(components, name)
       ELSE UNCHANGED <<componentInstances, components>>
    /\ lastOp' = "registerComponent"
    /\ UNCHANGED <<connections, startConnection, powered, switchStatus>>

\* a filter that tests conn[0] alone
withoutComponent_firstEndpointOnly(conns, componentA) ==
    SelectSeq(conns, LAMBDA conn : ~ (conn[1] = componentA))

\* a filter that tests conn[1] alone
withoutComponent_secondEndpointOnly(conns, componentA) ==
    SelectSeq(conns, LAMBDA conn : ~ (conn[2] = componentA))

\* connections.filter(conn => !(conn[0] === a || conn[1] === a))
withoutComponent(conns, componentA) ==
    SelectSeq(conns, LAMBDA conn : ~ (conn[1] = componentA \/ conn[2] = componentA))

\* a filter that matches the pair in the given orientation alone
withoutConnection_sameOrientationOnly(conns, componentA, componentB) ==
    SelectSeq(conns, LAMBDA conn :
        ~ (conn[1] = componentA /\ conn[2] = componentB))

\* connections.filter(conn => !({conn[0], conn[1]} = {a, b}))
withoutConnection(conns, componentA, componentB) ==
    SelectSeq(conns, LAMBDA conn :
        ~ (\/ (conn[1] = componentA /\ conn[2] = componentB)
           \/ (conn[1] = componentB /\ conn[2] = componentA)))

\* removeConnections on a manager whose components list is comps and whose
\* instance map is insts: <<connections, powered>> when it returns
removeConnectionsOn(comps, insts, componentA) ==
    LET filtered == withoutComponent(connections, componentA) IN
    IF Len(filtered) < Len(connections)
    THEN <<filtered, recompute(comps, filtered, insts, switchStatus)>>
    ELSE <<filtered, powered>>

removeConnections(componentA) ==
    LET r == removeConnectionsOn(components, componentInstances, componentA) IN
    /\ connections' = r[1]
    /\ powered' = r[2]
    /\ lastOp' = "removeConnections"
    /\ UNCHANGED <<components, startConnection, switchStatus, componentInstances>>

unregisterComponent(componentName) ==
    /\ IF has(componentInstances, componentName)
       THEN LET insts == delete(componentInstances, componentName)
                comps == SelectSeq(components, LAMBDA c : c # componentName)
                r == removeConnectionsOn(comps, insts, componentName)
            IN  /\ componentInstances' = insts
                /\ components' = comps
                /\ connections' = r[1]
                /\ powered' = r[2]
       ELSE UNCHANGED <<componentInstances, components, connections, powered>>
    /\ lastOp' = "unregisterComponent"
    /\ UNCHANGED <<startConnection, switchStatus>>

\* a duplicate test that compares the pair in the given orientation alone
connectionExists_sameOrientationOnly(conns, componentA, componentB) ==
    \E i \in 1..Len(conns) :
        conns[i][1] = componentA /\ conns[i][2] = componentB

connectionExists(conns, componentA, componentB) ==
    \E i \in 1..Len(conns) :
        \/ (conns[i][1] = componentA /\ conns[i][2] = componentB)
        \/ (conns[i][1] = componentB /\ conns[i][2] = componentA)

\* an addConnection that stores every new connection in startConnection
addConnection_lastConnectionWins(componentA, componentB) ==
    LET comps == addComponent(addComponent(components, componentA), componentB)
        conns == IF connectionExists(connections, componentA, componentB)
                 THEN connections
                 ELSE Append(connections, <<componentA, componentB>>)
    IN
    /\ components' = comps
    /\ IF componentA = componentB
       THEN UNCHANGED <<connections, startConnection, powered>>
       ELSE /\ connections' = conns
            /\ startConnection' =
                  IF ~ connectionExists(connections, componentA, componentB)
                  THEN <<componentA, componentB>>
                  ELSE startConnection
            /\ powered' = recompute(comps, conns, componentInstances, switchStatus)
    /\ lastOp' = IF componentA = componentB THEN "addConnectionSelf"
                  ELSE "addConnection"
    /\ UNCHANGED <<switchStatus, componentInstances>>

addConnection(componentA, componentB) ==
    LET comps == addComponent(addComponent(components, componentA), componentB)
        conns == IF connectionExists(connections, componentA, componentB)
                 THEN connections
                 ELSE Append(connections, <<componentA, componentB>>)
    IN
    /\ components' = comps
    /\ IF componentA = componentB
       THEN UNCHANGED <<connections, startConnection, powered>>
       ELSE /\ connections' = conns
            /\ startConnection' =
                  IF ~ connectionExists(connections, componentA, componentB)
                     /\ startConnection = null
                  THEN <<componentA, componentB>>
                  ELSE startConnection
            /\ powered' = recompute(comps, conns, componentInstances, switchStatus)
    /\ lastOp' = IF componentA = componentB THEN "addConnectionSelf"
                  ELSE "addConnection"
    /\ UNCHANGED <<switchStatus, componentInstances>>

\* a removeConnection that forgets the start connection it removes
removeConnection_clearsStartConnection(componentA, componentB) ==
    LET filtered == withoutConnection(connections, componentA, componentB) IN
    /\ connections' = filtered
    /\ powered' = IF Len(filtered) < Len(connections)
                  THEN recompute(components, filtered, componentInstances,
                                 switchStatus)
                  ELSE powered
    /\ startConnection' = IF startConnection # null
                             /\ ~ includes(filtered, startConnection)
                          THEN null ELSE startConnection
    /\ lastOp' = "removeConnection"
    /\ UNCHANGED <<components, switchStatus, componentInstances>>

removeConnection(componentA, componentB) ==
    LET filtered == withoutConnection(connections, componentA, componentB) IN
    /\ connections' = filtered
    /\ powered' = IF Len(filtered) < Len(connections)
                  THEN recompute(components, filtered, componentInstances,
                                 switchStatus)
                  ELSE powered
    /\ lastOp' = "removeConnection"
    /\ UNCHANGED <<components, startConnection, switchStatus, componentInstances>>

update(componentName, isToggledOn) ==
    LET status == set(switchStatus, componentName, isToggledOn) IN
    /\ switchStatus' = status
    /\ powered' = recompute(components, connections, componentInstances, status)
    /\ lastOp' = "update"
    /\ UNCHANGED <<components, connections, startConnection, componentInstances>>

resetGraph ==
    /\ components' = <<>>
    /\ connections' = <<>>
    /\ startConnection' = null
    /\ componentInstances' = EmptyMap
    /\ powered' = EmptyMap
    /\ lastOp' = "resetGraph"
    /\ UNCHANGED switchStatus

Next ==
    \/ \E c \in SceneComponents : registerComponent(c) /\ UNCHANGED sceneVars
    \/ \E n \in SceneNames : unregisterComponent(n) /\ UNCHANGED sceneVars
    \/ \E p \in ConnInputs : addConnection(p[1], p[2]) /\ UNCHANGED sceneVars
    \/ \E p \in ConnInputs : removeConnection(p[1], p[2]) /\ UNCHANGED sceneVars
    \/ \E n \in SceneNames : removeConnections(n) /\ UNCHANGED sceneVars
    \/ \E n \in UpdateInputs, v \in BOOLEAN : update(n, v) /\ UNCHANGED sceneVars
    \/ resetGraph /\ UNCHANGED sceneVars

Spec == Init /\ [][Next]_allVars

----------------------------------------------------------------------------
(* A four-component scene wired up edge by edge.  All four Component       *)
(* scripts have registered (in any order) and the two switches B and D     *)
(* have been set; addConnection then builds the graph.                     *)

GraphComponents ==
    [A |-> Component("A", "Battery"), B |-> Component("B", "Switch"),
     C |-> Component("C", "LED"), D |-> Component("D", "Switch")]

GraphEdges ==
    { <<"A", "B">>, <<"B", "C">>, <<"C", "A">>, <<"A", "D">>, <<"D", "C">>,
      <<"B", "D">> }

\* Longest connections list built in the four-component scene.
MaxConnections == 5

RegistrationOrders ==
    { s \in [1..Cardinality(Names) -> Names] :
        \A i, j \in 1..Cardinality(Names) : i # j => s[i] # s[j] }

InitGraph ==
    /\ components \in RegistrationOrders
    /\ componentInstances = GraphComponents
    /\ switchStatus \in [{"B", "D"} -> BOOLEAN]
    /\ connections = <<>>
    /\ startConnection = null
    /\ powered = [n \in Names |-> FALSE]
    /\ lastOp = "update"
    /\ SceneInit

NextGraph ==
    \E p \in GraphEdges :
        /\ Len(connections) < MaxConnections
        /\ addConnection(p[1], p[2])
        /\ UNCHANGED sceneVars

SpecGraph == InitGraph /\ [][NextGraph]_allVars

----------------------------------------------------------------------------
(* Four-component scenes without a (closed) switch, wired up edge by edge: *)
(* every Component script has registered, no toggle has been used.         *)

RingScenes ==
    { [A |-> Component("A", "Battery"), B |-> Component("B", "LED"),
       C |-> Component("C", "Motor"), D |-> Component("D", "Other")],
      [A |-> Component("A", "LED"), B |-> Component("B", "Wire"),
       C |-> Component("C", "Battery"), D |-> Component("D", "Battery")],
      [A |-> Component("A", "Battery"), B |-> Component("B", "Switch"),
       C |-> Component("C", "LED"), D |-> Component("D", "LED")],
      [A |-> Component("A", "LED"), B |-> Component("B", "LED"),
       C |-> Component("C", "Motor"), D |-> Component("D", "Wire")] }

InitRing ==
    /\ components \in RegistrationOrders
    /\ componentInstances \in RingScenes
    /\ switchStatus = EmptyMap
    /\ connections = <<>>
    /\ startConnection = null
    /\ powered = EmptyMap
    /\ lastOp = "registerComponent"
    /\ SceneInit

SpecRing == InitRing /\ [][NextGraph]_allVars

----------------------------------------------------------------------------
(* A loop A-B-C whose Component scripts register at any time, before or    *)
(* after the loop is wired, next to a switch D that is toggled.            *)

LateScene ==
    { Component("A", "Battery"), Component("B", "LED"),
      Component("C", "LED"), Component("D", "Switch") }

LoopEdges == { <<"A", "B">>, <<"B", "C">>, <<"C", "A">> }

NextLate ==
    \/ \E c \in LateScene : registerComponent(c) /\ UNCHANGED sceneVars
    \/ \E p \in LoopEdges : addConnection(p[1], p[2]) /\ UNCHANGED sceneVars
    \/ \E v \in BOOLEAN : update("D", v) /\ UNCHANGED sceneVars

SpecLate == Init /\ [][NextLate]_allVars

----------------------------------------------------------------------------
(* The registered four-component scene with its two switches B and D: the  *)
(* loop A-B-D is wired and unwired while the switches are toggled.         *)

SwitchEdges == { <<"A", "B">>, <<"B", "D">>, <<"D", "A">> }

NextSwitches ==
    \/ \E p \in SwitchEdges : addConnection(p[1], p[2]) /\ UNCHANGED sceneVars
    \/ \E p \in SwitchEdges : removeConnection(p[1], p[2]) /\ UNCHANGED sceneVars
    \/ \E n \in {"A", "B"} : removeConnections(n) /\ UNCHANGED sceneVars
    \/ \E n \in {"B", "D"}, v \in BOOLEAN : update(n, v) /\ UNCHANGED sceneVars

SpecSwitches == InitGraph /\ [][NextSwitches]_allVars

----------------------------------------------------------------------------
(* The singleton: several CircuitGraphManager objects of one scene wake up *)
(* and are destroyed in any order.  managerCalls records the calls made.   *)

\* Longest sequence of onAwake / destroy calls followed.
MaxCalls == 4

\* The fields of a manager object as its initialisers leave them.
NewManager ==
    /\ components = <<>>
    /\ connections = <<>>
    /\ startConnection = null
    /\ powered = EmptyMap
    /\ switchStatus = EmptyMap
    /\ componentInstances = EmptyMap
    /\ lastOp = "init"

\* the static field after an onAwake that takes the slot whoever holds it
onAwake_withoutInstanceTest(held, m) == m

\* CircuitGraphManager.instance when onAwake of m returns, held being its
\* value at the call
onAwakeInstance(held, m) ==
    IF held # null /\ held # m THEN held ELSE m

\* CircuitGraphManager.instance when destroy of m returns
destroyInstance(held, m) ==
    IF held = m THEN null ELSE held

onAwake(m) ==
    /\ Len(managerCalls) < MaxCalls
    /\ instance' = onAwakeInstance(instance, m)
    /\ managerCalls' = Append(managerCalls, <<"onAwake", m>>)
    /\ UNCHANGED <<vars, objects, lightToggler, snapVars>>

destroy(m) ==
    /\ Len(managerCalls) < MaxCalls
    /\ instance' = destroyInstance(instance, m)
    /\ managerCalls' = Append(managerCalls, <<"destroy", m>>)
    /\ UNCHANGED <<vars, objects, lightToggler, snapVars>>

InitSingleton ==
    /\ NewManager
    /\ instance = null
    /\ managerCalls = <<>>
    /\ objects = NewObjects
    /\ lightToggler = NewLightToggler
    /\ SnapInit

NextSingleton ==
    \/ \E m \in ManagerObjects : onAwake(m)
    \/ \E m \in ManagerObjects : destroy(m)

SpecSingleton == InitSingleton /\ [][NextSingleton]_allVars

----------------------------------------------------------------------------
(* The Component scripts of the scene wake up and are destroyed while the  *)
(* loop A-B-C is wired.  Two of the objects carry the name B.              *)

\* Component.onAwake of the object o
ComponentOnAwake(o) ==
    /\ objects[o] = "new"
    /\ objects' = [objects EXCEPT ![o] = "awake"]
    /\ IF instance # null
       THEN registerComponent(o)
       ELSE UNCHANGED vars
    /\ UNCHANGED <<instance, managerCalls, lightToggler, snapVars>>

\* Component.onDestroy of the object o
ComponentOnDestroy(o) ==
    /\ objects[o] = "awake"
    /\ objects' = [objects EXCEPT ![o] = "destroyed"]
    /\ IF instance # null
       THEN unregisterComponent(o.name)
       ELSE UNCHANGED vars
    /\ UNCHANGED <<instance, managerCalls, lightToggler, snapVars>>

NextObjects ==
    \/ \E o \in SceneComponents : ComponentOnAwake(o)
    \/ \E o \in SceneComponents : ComponentOnDestroy(o)
    \/ \E p \in LoopEdges : addConnection(p[1], p[2]) /\ UNCHANGED sceneVars

SpecObjects == Init /\ [][NextObjects]_allVars

----------------------------------------------------------------------------
(* The snap scripts.  Each receives drag events from its Interactable and  *)
(* overlap events from its collider; the other object of an overlap event  *)
(* is a target, the script's own object, or missing (null).                *)

\* The other scene objects that carry a collider.
SnapTargets == {"T1", "T2", "T3"}

\* getSceneObject() of a SimpleSnapBehavior or a DynamicSnapAnyCollider
SelfObject == "Self"

\* list.indexOf(o), counted from 1; 0 stands for -1
indexOf(list, o) ==
    IF \E i \in 1..Len(list) : list[i] = o
    THEN CHOOSE i \in 1..Len(list) :
             list[i] = o /\ \A j \in 1..(i - 1) : list[j] # o
    ELSE 0

\* list.splice(index, 1)
splice(list, index) ==
    SubSeq(list, 1, index - 1) \o SubSeq(list, index + 1, Len(list))

\* the history of contacts after an overlap-enter with other: the objects
\* entered and not left since, own being the script's own objects
entered(touching, other, own) ==
    IF other = null \/ other \in own \/ other \in Range(touching)
    THEN touching
    ELSE Append(touching, other)

\* the history of contacts after an overlap-exit with other
left(touching, other, own) ==
    IF other = null \/ other \in own
    THEN touching
    ELSE SelectSeq(touching, LAMBDA o : o # other)

----------------------------------------------------------------------------
(* SimpleSnapBehavior                                                      *)

Simple_handleDragStart(s) ==
    [s EXCEPT !.isActive = TRUE, !.currentOverlappingTargets = <<>>]

\* a handleDragEnd without the isActive test
Simple_handleDragEnd_withoutActiveTest(s) ==
    [s EXCEPT !.isActive = FALSE,
              !.snappedTo = IF Len(s.currentOverlappingTargets) > 0
                            THEN s.currentOverlappingTargets[1]
                            ELSE null]

Simple_handleDragEnd(s) ==
    IF ~ s.isActive
    THEN [s EXCEPT !.snappedTo = null]
    ELSE [s EXCEPT !.isActive = FALSE,
                   !.snappedTo = IF Len(s.currentOverlappingTargets) > 0
                                 THEN s.currentOverlappingTargets[1]
                                 ELSE null]

\* a handleOverlapEnter that pushes without the indexOf test
Simple_handleOverlapEnter_withoutIndexTest(s, otherObject) ==
    IF otherObject = null \/ otherObject = SelfObject
    THEN s
    ELSE [s EXCEPT !.currentOverlappingTargets = Append(@, otherObject),
                   !.touching = entered(@, otherObject, {SelfObject})]

Simple_handleOverlapEnter(s, otherObject) ==
    IF otherObject = null \/ otherObject = SelfObject
    THEN s
    ELSE IF indexOf(s.currentOverlappingTargets, otherObject) = 0
    THEN [s EXCEPT !.currentOverlappingTargets = Append(@, otherObject),
                   !.touching = entered(@, otherObject, {SelfObject})]
    ELSE [s EXCEPT !.touching = entered(@, otherObject, {SelfObject})]

Simple_handleOverlapExit(s, otherObject) ==
    IF otherObject = null \/ otherObject = SelfObject
    THEN s
    ELSE LET index == indexOf(s.currentOverlappingTargets, otherObject) IN
         IF index > 0
         THEN [s EXCEPT !.currentOverlappingTargets = splice(@, index),
                        !.touching = left(@, otherObject, {SelfObject})]
         ELSE [s EXCEPT !.touching = left(@, otherObject, {SelfObject})]

\* what no event of the SimpleSnapBehavior changes
exceptSimpleSnap ==
    <<vars, instance, managerCalls, objects, lightToggler, wireSnap,
      dynamicSnap>>

SimpleDragStart ==
    /\ simpleSnap' =
          [Simple_handleDragStart(simpleSnap) EXCEPT
             !.lastEvent = "dragStart", !.lastOther = null]
    /\ UNCHANGED exceptSimpleSnap

SimpleDragEnd ==
    /\ simpleSnap' =
          [Simple_handleDragEnd(simpleSnap) EXCEPT
             !.lastEvent = "dragEnd", !.lastOther = null]
    /\ UNCHANGED exceptSimpleSnap

SimpleOverlapEnter(otherObject) ==
    /\ simpleSnap' =
          [Simple_handleOverlapEnter(simpleSnap, otherObject) EXCEPT
             !.lastEvent = "overlapEnter", !.lastOther = otherObject]
    /\ UNCHANGED exceptSimpleSnap

SimpleOverlapExit(otherObject) ==
    /\ simpleSnap' =
          [Simple_handleOverlapExit(simpleSnap, otherObject) EXCEPT
             !.lastEvent = "overlapExit", !.lastOther = otherObject]
    /\ UNCHANGED exceptSimpleSnap

NextSimpleSnap ==
    \/ SimpleDragStart
    \/ SimpleDragEnd
    \/ \E o \in SnapTargets \cup {SelfObject, null} : SimpleOverlapEnter(o)
    \/ \E o \in SnapTargets \cup {SelfObject, null} : SimpleOverlapExit(o)

SpecSimpleSnap == Init /\ [][NextSimpleSnap]_allVars

----------------------------------------------------------------------------
(* WireSnapBehavior                                                        *)

\* getSceneObject() of the WireSnapBehavior and its two connector spheres
WireObject == "Wire"
FirstConnectorSphere == "Sphere1"
SecondConnectorSphere == "Sphere2"
WireOwnObjects == {WireObject, FirstConnectorSphere, SecondConnectorSphere}

\* The other scene objects a connector sphere meets.
WireTargets == {"T1", "T2"}

Wire_handleDragStart(w, dragSource) ==
    IF dragSource = null
    THEN w
    ELSE [w EXCEPT !.activeDragSource = dragSource, !.isDragging = TRUE]

Wire_checkAndSnapSpheres(w) ==
    [w EXCEPT
       !.firstSnappedTo = IF Len(w.firstSphereOverlappingTargets) > 0
                          THEN w.firstSphereOverlappingTargets[1]
                          ELSE null,
       !.secondSnappedTo = IF Len(w.secondSphereOverlappingTargets) > 0
                           THEN w.secondSphereOverlappingTargets[1]
                           ELSE null,
       !.firstSphereOverlappingTargets = <<>>,
       !.secondSphereOverlappingTargets = <<>>]

Wire_handleDragEnd(w) ==
    IF ~ w.isDragging
    THEN [w EXCEPT !.firstSnappedTo = null, !.secondSnappedTo = null]
    ELSE [Wire_checkAndSnapSpheres(w) EXCEPT
            !.isDragging = FALSE, !.activeDragSource = null]

Wire_handleOverlapEnter(w, sphere, otherObject) ==
    IF sphere = null \/ otherObject = null \/ otherObject \in WireOwnObjects
    THEN w
    ELSE IF sphere = FirstConnectorSphere
    THEN [w EXCEPT
            !.firstSphereOverlappingTargets =
                IF indexOf(@, otherObject) = 0 THEN Append(@, otherObject) ELSE @,
            !.firstTouching = entered(@, otherObject, WireOwnObjects)]
    ELSE [w EXCEPT
            !.secondSphereOverlappingTargets =
                IF indexOf(@, otherObject) = 0 THEN Append(@, otherObject) ELSE @,
            !.secondTouching = entered(@, otherObject, WireOwnObjects)]

Wire_handleOverlapExit(w, sphere, otherObject) ==
    IF sphere = null \/ otherObject = null \/ otherObject \in WireOwnObjects
    THEN w
    ELSE IF sphere = FirstConnectorSphere
    THEN [w EXCEPT
            !.firstSphereOverlappingTargets =
                IF indexOf(@, otherObject) > 0
                THEN splice(@, indexOf(@, otherObject)) ELSE @,
            !.firstTouching = left(@, otherObject, WireOwnObjects)]
    ELSE [w EXCEPT
            !.secondSphereOverlappingTargets =
                IF indexOf(@, otherObject) > 0
                THEN splice(@, indexOf(@, otherObject)) ELSE @,
            !.secondTouching = left(@, otherObject, WireOwnObjects)]

\* what no event of the WireSnapBehavior changes
exceptWireSnap ==
    <<vars, instance, managerCalls, objects, lightToggler, simpleSnap,
      dynamicSnap>>

WireDragStart(dragSource) ==
    /\ wireSnap' =
          [Wire_handleDragStart(wireSnap, dragSource) EXCEPT
             !.lastEvent = "dragStart", !.lastOther = null]
    /\ UNCHANGED exceptWireSnap

WireDragEnd ==
    /\ wireSnap' =
          [Wire_handleDragEnd(wireSnap) EXCEPT
             !.lastEvent = "dragEnd", !.lastOther = null]
    /\ UNCHANGED exceptWireSnap

WireOverlapEnter(sphere, otherObject) ==
    /\ wireSnap' =
          [Wire_handleOverlapEnter(wireSnap, sphere, otherObject) EXCEPT
             !.lastEvent = "overlapEnter", !.lastOther = otherObject]
    /\ UNCHANGED exceptWireSnap

WireOverlapExit(sphere, otherObject) ==
    /\ wireSnap' =
          [Wire_handleOverlapExit(wireSnap, sphere, otherObject) EXCEPT
             !.lastEvent = "overlapExit", !.lastOther = otherObject]
    /\ UNCHANGED exceptWireSnap

NextWireSnap ==
    \/ \E dragSource \in WireOwnObjects : WireDragStart(dragSource)
    \/ WireDragEnd
    \/ \E sphere \in {FirstConnectorSphere, SecondConnectorSphere} :
          \E o \in WireTargets \cup WireOwnObjects \cup {null} :
             WireOverlapEnter(sphere, o)
    \/ \E sphere \in {FirstConnectorSphere, SecondConnectorSphere} :
          \E o \in WireTargets \cup WireOwnObjects \cup {null} :
             WireOverlapExit(sphere, o)

SpecWireSnap == Init /\ [][NextWireSnap]_allVars

----------------------------------------------------------------------------
(* DynamicSnapAnyCollider                                                  *)

\* eventArgs.touchId of the touches the script receives
TouchIds == {0, 1}

\* a handleTouchStart without the isDragging test
handleTouchStart_withoutDraggingTest(d, touch) ==
    [d EXCEPT !.isDragging = TRUE, !.touchId = touch,
              !.currentOverlappingTargets = <<>>]

handleTouchStart(d, touch) ==
    IF ~ d.isDragging
    THEN [d EXCEPT !.isDragging = TRUE, !.touchId = touch,
                   !.currentOverlappingTargets = <<>>]
    ELSE d

handleTouchEnd(d, touch) ==
    IF d.isDragging /\ touch = d.touchId
    THEN [d EXCEPT !.isDragging = FALSE, !.touchId = -1,
                   !.snappedTo = IF Len(d.currentOverlappingTargets) > 0
                                 THEN d.currentOverlappingTargets[1]
                                 ELSE null]
    ELSE [d EXCEPT !.snappedTo = null]

Dynamic_handleOverlapEnter(d, otherObject) ==
    IF otherObject = null \/ otherObject = SelfObject
    THEN d
    ELSE IF indexOf(d.currentOverlappingTargets, otherObject) = 0
    THEN [d EXCEPT !.currentOverlappingTargets = Append(@, otherObject)]
    ELSE d

Dynamic_handleOverlapExit(d, otherObject) ==
    IF otherObject = null \/ otherObject = SelfObject
    THEN d
    ELSE LET index == indexOf(d.currentOverlappingTargets, otherObject) IN
         IF index > 0
         THEN [d EXCEPT !.currentOverlappingTargets = splice(@, index)]
         ELSE d

\* what no event of the DynamicSnapAnyCollider changes
exceptDynamicSnap ==
    <<vars, instance, managerCalls, objects, lightToggler, simpleSnap,
      wireSnap>>

\* startedBy is the touch whose start found no drag in progress, until
\* that touch ends; lastEvent and lastTouchId name the event delivered.
DynamicTouchStart(touch) ==
    /\ dynamicSnap' =
          [handleTouchStart(dynamicSnap, touch) EXCEPT
             !.startedBy = IF @ = -1 THEN touch ELSE @,
             !.lastEvent = "touchStart", !.lastTouchId = touch,
             !.lastOther = null]
    /\ UNCHANGED exceptDynamicSnap

DynamicTouchEnd(touch) ==
    /\ dynamicSnap' =
          [handleTouchEnd(dynamicSnap, touch) EXCEPT
             !.startedBy = IF @ = touch THEN -1 ELSE @,
             !.lastEvent = "touchEnd", !.lastTouchId = touch,
             !.lastOther = null]
    /\ UNCHANGED exceptDynamicSnap

DynamicOverlapEnter(otherObject) ==
    /\ dynamicSnap' =
          [Dynamic_handleOverlapEnter(dynamicSnap, otherObject) EXCEPT
             !.lastEvent = "overlapEnter", !.lastTouchId = -1,
             !.lastOther = otherObject]
    /\ UNCHANGED exceptDynamicSnap

DynamicOverlapExit(otherObject) ==
    /\ dynamicSnap' =
          [Dynamic_handleOverlapExit(dynamicSnap, otherObject) EXCEPT
             !.lastEvent = "overlapExit", !.lastTouchId = -1,
             !.lastOther = otherObject]
    /\ UNCHANGED exceptDynamicSnap

NextDynamicSnap ==
    \/ \E touch \in TouchIds : DynamicTouchStart(touch)
    \/ \E touch \in TouchIds : DynamicTouchEnd(touch)
    \/ \E o \in SnapTargets \cup {SelfObject, null} : DynamicOverlapEnter(o)
    \/ \E o \in SnapTargets \cup {SelfObject, null} : DynamicOverlapExit(o)

SpecDynamicSnap == Init /\ [][NextDynamicSnap]_allVars

----------------------------------------------------------------------------
(* The three scripts share no state; a behaviour of SpecSnapScripts        *)
(* delivers events to one of them.                                         *)

NextSnapScripts ==
    \/ /\ wireSnap = NewWireSnap
       /\ dynamicSnap = NewDynamicSnap
       /\ NextSimpleSnap
    \/ /\ simpleSnap = NewSimpleSnap
       /\ dynamicSnap = NewDynamicSnap
       /\ NextWireSnap
    \/ /\ simpleSnap = NewSimpleSnap
       /\ wireSnap = NewWireSnap
       /\ NextDynamicSnap

SpecSnapScripts == Init /\ [][NextSnapScripts]_allVars

----------------------------------------------------------------------------
(* The graph the connections list stands for, and what the specification   *)
(* calls a qualifying cycle.                                               *)

\* the unordered pairs of the connections list
Edges(conns) == { {conns[i][1], conns[i][2]} : i \in 1..Len(conns) }

\* sequences of three or more pairwise distinct names
DistinctSeqs ==
    UNION { { s \in [1..k -> Names] : \A i, j \in 1..k : i # j => s[i] # s[j] } :
            k \in 3..Cardinality(Names) }

\* the simple cycles: consecutive names, and the last and the first, connected
SimpleCycles(conns) ==
    LET edges == Edges(conns) IN
    { s \in DistinctSeqs :
        \A i \in 1..Len(s) : {s[i], s[(i % Len(s)) + 1]} \in edges }

\* the registered type of a name; a name without instance has type Other
TypeOf(insts, n) == IF has(insts, n) THEN insts[n].type ELSE "Other"

\* Battery present and no Switch whose stored state is open
Qualifies(s, insts, status) ==
    /\ \E i \in 1..Len(s) : TypeOf(insts, s[i]) = "Battery"
    /\ \A i \in 1..Len(s) :
          TypeOf(insts, s[i]) = "Switch" => switchOn(status, s[i])

OnQualifyingCycle(n) ==
    \E s \in SimpleCycles(connections) :
        /\ n \in Range(s)
        /\ Qualifies(s, componentInstances, switchStatus)

\* powered[n] === true
isPowered(n) == has(powered, n) /\ powered[n]

\* the last call recomputed the powered map
Recomputed == lastOp \in {"addConnection", "update"}

Reverse(s) == [i \in 1..Len(s) |-> s[Len(s) + 1 - i]]

----------------------------------------------------------------------------
\* C1: after a call that recomputes power, a component is powered if and only
\* if it lies on a simple cycle of the connection graph that contains a
\* Battery and no open Switch.
C1_PoweredIffOnQualifyingCycle ==
    Recomputed =>
        \A n \in Range(components) : isPowered(n) <=> OnQualifyingCycle(n)

\* C2: a cycle returned by findCycles that contains a registered Switch whose
\* switchStatus is false or unset adds no component to the energized set,
\* wherever that switch stands in the cycle and whatever the other switches.
C2_OpenSwitchBreaksCycle ==
    LET cycles == findCycles(components, connections) IN
    \A i \in 1..Len(cycles) :
        (\E k \in 1..Len(cycles[i]) :
            /\ TypeOf(componentInstances, cycles[i][k]) = "Switch"
            /\ ~ switchOn(switchStatus, cycles[i][k]))
        => cycleContribution(cycles[i], componentInstances, switchStatus) = {}

\* C3: the identifier sets of the cycles findCycles returns are exactly the
\* vertex sets of the simple cycles of the graph, each returned once.
C3_FindCyclesReturnsEverySimpleCycle ==
    LET cycles == findCycles(components, connections) IN
    /\ { Range(cycles[i]) : i \in 1..Len(cycles) }
          = { Range(s) : s \in SimpleCycles(connections) }
    /\ \A i, j \in 1..Len(cycles) :
          i # j => Range(cycles[i]) # Range(cycles[j])

\* C4: the powered map does not depend on the order in which the components
\* were registered or the connections were added: the same components and
\* connections in the opposite order give the same map.
C4_PoweredIndependentOfOrder ==
    Recomputed =>
        /\ powered = recompute(components, Reverse(connections),
                               componentInstances, switchStatus)
        /\ powered = recompute(Reverse(components), connections,
                               componentInstances, switchStatus)

\* C5: between public operations the powered map is what a recompute would
\* produce from the current state.
C5_PoweredAlwaysConsistent ==
    powered = recompute(components, connections, componentInstances,
                        switchStatus)

\* C6: the connections list holds no pair [a, a] and no two entries equal as
\* unordered pairs.
C6_NoSelfNoDuplicateConnection ==
    /\ \A i \in 1..Len(connections) : connections[i][1] # connections[i][2]
    /\ \A i, j \in 1..Len(connections) :
          i # j => {connections[i][1], connections[i][2]}
                     # {connections[j][1], connections[j][2]}

\* C6 witness: the triangle is connected, A-B stored as [B, A], and the last
\* call was an addConnection
C6_Witness ==
    /\ lastOp = "addConnection"
    /\ Len(connections) = 3
    /\ \E i \in 1..Len(connections) : connections[i] = <<"B", "A">>

\* C7: both endpoints of every connection are members of components.
C7_EndpointsAreComponents ==
    \A i \in 1..Len(connections) :
        /\ includes(components, connections[i][1])
        /\ includes(components, connections[i][2])

\* C7 witness: unregisterComponent has just removed a component together with
\* its connections (the first connection ever made touched it) and another
\* connection is still there
C7_Witness ==
    /\ lastOp = "unregisterComponent"
    /\ connections # <<>>
    /\ startConnection # null
    /\ \E k \in 1..2 : ~ includes(components, startConnection[k])

\* C8: addConnection(a, a) changes neither components nor connections nor the
\* powered map, whether or not a is known.
C8_SelfConnectionIsNoOp ==
    [][ \A a \in Names :
          addConnection(a, a) =>
              /\ components' = components
              /\ connections' = connections
              /\ powered' = powered ]_vars

\* C9: after unregisterComponent(id) of any member of components, id is not
\* in components, no connection touches id, powered[id] is not true and no
\* cycle found contains id.
C9_UnregisterRemovesEveryComponent ==
    [][ \A n \in SceneNames :
          (includes(components, n) /\ unregisterComponent(n)) =>
              /\ ~ includes(components', n)
              /\ \A i \in 1..Len(connections') :
                    connections'[i][1] # n /\ connections'[i][2] # n
              /\ ~ (has(powered', n) /\ powered'[n])
              /\ LET cycles == findCycles(components', connections') IN
                 \A i \in 1..Len(cycles) : n \notin Range(cycles[i]) ]_vars

\* the members of components that no Component script registered
ImplicitComponents == Range(components) \ DOMAIN componentInstances

----------------------------------------------------------------------------
(* Graphs that are one cycle, and connectivity                             *)

\* the unordered pairs joining consecutive names of s, and the last and first
RingEdges(s) == { {s[i], s[(i % Len(s)) + 1]} : i \in 1..Len(s) }

\* the connections are exactly the cycle s, all of whose names registered
IsRegisteredRing(s, conns, insts) ==
    /\ Edges(conns) = RingEdges(s)
    /\ \A i \in 1..Len(s) : has(insts, s[i])

HasBattery(s, insts) == \E i \in 1..Len(s) : TypeOf(insts, s[i]) = "Battery"

SwitchesOf(s, insts) == { n \in Range(s) : TypeOf(insts, n) = "Switch" }

\* powered[n] === true in the map p
isPoweredIn(p, n) == has(p, n) /\ p[n]

\* the names joined to a name of seen by a path of connections
RECURSIVE Reach(_, _)
Reach(seen, conns) ==
    LET more == { n \in Names : \E m \in seen : {m, n} \in Edges(conns) } IN
    IF more \subseteq seen THEN seen ELSE Reach(seen \cup more, conns)

ConnectedComponentOf(n, conns) == Reach({n}, conns)

\* n lies on a qualifying cycle of the given graph
OnQualifyingCycleIn(n, conns, insts, status) ==
    \E s \in SimpleCycles(conns) :
        /\ n \in Range(s)
        /\ Qualifies(s, insts, status)

----------------------------------------------------------------------------
\* C11: between public operations the key set of the powered map is exactly
\* the set of components.
C11_PoweredKeysAreComponents ==
    DOMAIN powered = Range(components)

\* C12: resetGraph leaves components and connections empty, startConnection
\* null, the powered map empty and every switch state cleared (open).
C12_ResetClearsSwitchStates ==
    [][ resetGraph =>
          /\ components' = <<>>
          /\ connections' = <<>>
          /\ startConnection' = null
          /\ powered' = EmptyMap
          /\ \A n \in Names : ~ switchOn(switchStatus', n) ]_vars

\* C13: when addConnection has just closed a graph that is one simple cycle of
\* registered components with a Battery and no Switch, every component of the
\* cycle is energized, in whatever order the connections were added.
C13_BatteryRingEnergized ==
    lastOp = "addConnection" =>
        \A s \in DistinctSeqs :
            (/\ IsRegisteredRing(s, connections, componentInstances)
             /\ HasBattery(s, componentInstances)
             /\ SwitchesOf(s, componentInstances) = {})
            => \A n \in Range(s) : isPowered(n)

\* C13 witness: the fourth connection has closed a ring of four registered
\* components, Battery among them and no Switch, and all four are energized
C13_Witness ==
    /\ lastOp = "addConnection"
    /\ Len(connections) = 4
    /\ \E s \in DistinctSeqs :
          /\ Len(s) = 4
          /\ IsRegisteredRing(s, connections, componentInstances)
          /\ HasBattery(s, componentInstances)
          /\ SwitchesOf(s, componentInstances) = {}
    /\ \A n \in Names : isPowered(n)

\* C14: for a graph that is one cycle of registered components with a Battery
\* and exactly one Switch d: while d is open no component of the cycle is
\* energized, right after update(d, true) all of them are, and right after
\* update(d, false) none is.
C14_SingleSwitchControlsRing ==
    [][ \A s \in DistinctSeqs : \A d \in Range(s) :
          (/\ IsRegisteredRing(s, connections', componentInstances')
           /\ HasBattery(s, componentInstances')
           /\ SwitchesOf(s, componentInstances') = {d})
          => /\ ~ switchOn(switchStatus', d)
                  => \A n \in Range(s) : ~ isPoweredIn(powered', n)
             /\ update(d, TRUE)
                  => \A n \in Range(s) : isPoweredIn(powered', n)
             /\ update(d, FALSE)
                  => \A n \in Range(s) : ~ isPoweredIn(powered', n) ]_vars

\* C15: whenever the connection graph has no cycle, every entry of the
\* powered map is false, whatever the component types and switch states
\* (stated from the powered side: a true entry implies a cycle).
C15_ForestEnergizesNothing ==
    (\E n \in DOMAIN powered : powered[n])
    => SimpleCycles(connections) # {}

\* C15 witness: addConnection has joined the Battery A and the three other
\* components into a tree, with both switches closed
C15_Witness ==
    /\ lastOp = "addConnection"
    /\ Len(connections) = 3
    /\ SimpleCycles(connections) = {}
    /\ ConnectedComponentOf("A", connections) = Names
    /\ TypeOf(componentInstances, "A") = "Battery"
    /\ switchOn(switchStatus, "B")
    /\ switchOn(switchStatus, "D")

\* C16: update(s, v) does not change the energized value of any component
\* that lies in another connected component of the graph than s.
C16_UpdateLeavesOtherComponentsUnchanged ==
    [][ \A s \in Names : \A v \in BOOLEAN :
          update(s, v) =>
              \A c \in Range(components) \ ConnectedComponentOf(s, connections) :
                  isPoweredIn(powered', c) = isPoweredIn(powered, c) ]_vars

\* C17: a component energized before a removeConnection, removeConnections or
\* update that recomputes, and on no qualifying cycle afterwards, has powered
\* value false when the call returns.
C17_RecomputeResetsStalePower ==
    [][ \A c \in Names :
          (/\ \/ lastOp' = "update"
              \/ /\ lastOp' \in {"removeConnection", "removeConnections"}
                 /\ Len(connections') < Len(connections)
           /\ isPoweredIn(powered, c)
           /\ ~ OnQualifyingCycleIn(c, connections', componentInstances',
                                    switchStatus'))
          => ~ isPoweredIn(powered', c) ]_vars

\* C18: addConnection(a, b) right after an addConnection that left a and b
\* connected (the same call, or the call with the endpoints swapped), and
\* addConnection(a, a) right after an addConnection(a, a), changes neither
\* components nor connections nor the powered map.  (Such a call leaves
\* lastOp as it is; that conjunct comes first because it is the cheapest.)
C18_AddConnectionIdempotent ==
    [][ \A a, b \in Names :
          (/\ lastOp' = lastOp
           /\ IF a = b
              THEN lastOp = "addConnectionSelf" /\ includes(components, a)
              ELSE lastOp = "addConnection"
                   /\ connectionExists(connections, a, b)
           /\ addConnection(a, b))
          => /\ components' = components
             /\ connections' = connections
             /\ powered' = powered ]_vars

\* C18 witness: addConnection has left A and B connected, with the loop
\* closed and energized, so that a repeated call has a powered map to keep
C18_Witness ==
    /\ lastOp = "addConnection"
    /\ connectionExists(connections, "B", "A")
    /\ Len(connections) = 3
    /\ \E n \in Names : isPowered(n)

\* C19: no two cycles returned by one call of findCycles have the same set
\* of component names.
C19_ReturnedCyclesHaveDistinctSets ==
    LET cycles == findCycles(components, connections)
        n == Len(cycles)
    IN  n > 1 => \A i, j \in 1..n :
                    i # j => Range(cycles[i]) # Range(cycles[j])

\* C19 witness: findCycles returns two cycles
C19_Witness ==
    Len(findCycles(components, connections)) = 2

\* C20: every cycle returned by findCycles is a sequence of three or more
\* pairwise distinct names in which consecutive names, and the last and the
\* first, are joined by a connection.
C20_ReturnedCyclesAreSimpleCycles ==
    LET cycles == findCycles(components, connections) IN
    \A i \in 1..Len(cycles) : cycles[i] \in SimpleCycles(connections)

\* C20 witness: findCycles returns a cycle of four names and a cycle of three
C20_Witness ==
    LET cycles == findCycles(components, connections) IN
    /\ \E i \in 1..Len(cycles) : Len(cycles[i]) = 4
    /\ \E i \in 1..Len(cycles) : Len(cycles[i]) = 3

----------------------------------------------------------------------------
(* The LightToggler on the scene object of the LED C, next to the manager  *)
(* of the registered four-component scene: the loop A-B-C is wired and     *)
(* unwired and the switch B is toggled between the frames.                 *)

\* getSceneObject().name of the LightToggler
TogglerName == "C"

\* an updateLightState that switches the light objects and does not record
\* the value shown
updateLightState_withoutMemo(t, manager, p) ==
    IF ~ t.hasValidLightObjects \/ manager = null
    THEN t
    ELSE LET isP == isPoweredIn(p, t.componentName) IN
         IF isP # t.previousPoweredState
         THEN [t EXCEPT !.lightObject = isP, !.lightOffObject = ~ isP]
         ELSE t

\* the LightToggler t when updateLightState returns, manager being
\* CircuitGraphManager.instance and p its powered map
updateLightState(t, manager, p) ==
    IF ~ t.hasValidLightObjects \/ manager = null
    THEN t
    ELSE LET isP == isPoweredIn(p, t.componentName) IN
         IF isP # t.previousPoweredState
         THEN [t EXCEPT !.lightObject = isP, !.lightOffObject = ~ isP,
                        !.previousPoweredState = isP]
         ELSE t

\* validateLightObjects, then setInitialState; attached tells whether both
\* light objects are set in the Inspector
setInitialState(t, attached) ==
    IF attached
    THEN [t EXCEPT !.hasValidLightObjects = TRUE, !.lightObject = FALSE,
                   !.lightOffObject = TRUE]
    ELSE [t EXCEPT !.hasValidLightObjects = FALSE]

\* LightToggler.onAwake
LightTogglerOnAwake(attached) ==
    /\ ~ lightToggler.awake
    /\ lightToggler' =
           updateLightState(
               setInitialState([lightToggler EXCEPT !.awake = TRUE], attached),
               instance, powered)
    /\ UNCHANGED <<vars, instance, managerCalls, objects, snapVars>>

\* LightToggler.onUpdate, bound to the UpdateEvent: once every frame
LightTogglerOnUpdate ==
    /\ lightToggler.awake
    /\ lightToggler' =
           updateLightState(
               [lightToggler EXCEPT !.componentName = TogglerName],
               instance, powered)
    /\ UNCHANGED <<vars, instance, managerCalls, objects, snapVars>>

NextLight ==
    \/ \E attached \in BOOLEAN : LightTogglerOnAwake(attached)
    \/ LightTogglerOnUpdate
    \/ \E p \in LoopEdges : addConnection(p[1], p[2]) /\ UNCHANGED sceneVars
    \/ \E p \in LoopEdges : removeConnection(p[1], p[2]) /\ UNCHANGED sceneVars
    \/ \E v \in BOOLEAN : update("B", v) /\ UNCHANGED sceneVars

SpecLight == InitGraph /\ [][NextLight]_allVars

\* the LightToggler has its light objects and has seen a frame, so it
\* follows the powered entry of its scene object
Listening ==
    /\ lightToggler.awake
    /\ lightToggler.hasValidLightObjects
    /\ lightToggler.componentName = TogglerName

\* C21: the listener of C is told every new energized value of C, once for
\* each recompute that changes it: whenever a recompute changes powered[C],
\* the value it replaces is the value the listener was told last, so that
\* no change passes without its delivery.
C21_EveryChangeDelivered ==
    [][ (/\ Listening
         /\ isPoweredIn(powered', TogglerName) # isPoweredIn(powered, TogglerName))
        => lightToggler.previousPoweredState = isPoweredIn(powered, TogglerName)
      ]_allVars

----------------------------------------------------------------------------
\* C22: update(id, v) with an id that is not a member of components changes
\* neither components nor connections nor the energized value of any name.
C22_UpdateOfUnknownIdIsNoOp ==
    [][ \A id \in Names : \A v \in BOOLEAN :
          (/\ lastOp' = "update"
           /\ ~ includes(components, id)
           /\ update(id, v))
          => /\ components' = components
             /\ connections' = connections
             /\ \A c \in Names :
                   isPoweredIn(powered', c) = isPoweredIn(powered, c) ]_vars

\* C23: update(id, v) where the stored state of id is already v returns with
\* the energized value of every name as it was before the call.
C23_RedundantUpdateKeepsPower ==
    [][ \A id \in Names : \A v \in BOOLEAN :
          (/\ lastOp' = "update"
           /\ has(switchStatus, id)
           /\ switchStatus[id] = v
           /\ update(id, v))
          => \A c \in Names :
                isPoweredIn(powered', c) = isPoweredIn(powered, c) ]_vars

\* C24: after removeConnection(a, b) no connection joins a and b in either
\* orientation, every other connection is still there and no connection has
\* appeared, and components is unchanged; when no connection joined a and b
\* the call changes neither connections nor the powered map.
C24_RemoveConnectionFrame ==
    [][ lastOp' = "removeConnection" =>
        \A p \in ConnInputs : LET a == p[1]  b == p[2] IN
          removeConnection(a, b)
          => /\ ~ connectionExists(connections', a, b)
             /\ \A i \in 1..Len(connections) :
                   {connections[i][1], connections[i][2]} # {a, b}
                   => includes(connections', connections[i])
             /\ \A i \in 1..Len(connections') :
                   includes(connections, connections'[i])
             /\ components' = components
             /\ ~ connectionExists(connections, a, b)
                   => connections' = connections /\ powered' = powered ]_vars

\* C24 witness: removeConnection has removed the first connection ever made
\* and left the two others of the loop
C24_Witness ==
    /\ lastOp = "removeConnection"
    /\ Len(connections) = 2
    /\ startConnection # null
    /\ ~ includes(connections, startConnection)
    /\ Cardinality(Range(components)) = 3

\* C25: after removeConnections(id) no connection has id as an endpoint,
\* every connection that does not touch id is still there and no connection
\* has appeared, and components, id included, is unchanged.
C25_RemoveConnectionsFrame ==
    [][ \A id \in Names :
          (lastOp' = "removeConnections" /\ removeConnections(id))
          => /\ \A i \in 1..Len(connections') :
                   /\ connections'[i][1] # id
                   /\ connections'[i][2] # id
                   /\ includes(connections, connections'[i])
             /\ \A i \in 1..Len(connections) :
                   (connections[i][1] # id /\ connections[i][2] # id)
                   => includes(connections', connections[i])
             /\ components' = components ]_vars

\* C25 witness: removeConnections has removed two connections of the loop
\* and left the third, and the three names are still components
C25_Witness ==
    /\ lastOp = "removeConnections"
    /\ Len(connections) = 1
    /\ startConnection # null
    /\ ~ includes(connections, startConnection)
    /\ Cardinality(Range(components)) = 3

\* C26 as stated: after registerComponent the type power propagation uses for
\* the name is the type of the component just registered.
C26_RegisterUpdatesType ==
    [][ \A c \in SceneComponents :
          (lastOp' = "registerComponent" /\ registerComponent(c))
          => /\ has(componentInstances', c.name)
             /\ componentInstances'[c.name].type = c.type ]_vars

\* C26 as amended: registerComponent on a name that is already registered
\* changes nothing: the instance, and with it the type power propagation
\* uses, stays the one registered first, and components, connections, the
\* powered map and the switch states are as before.
C26_RegisterKeepsFirstInstance ==
    [][ \A c \in SceneComponents :
          (/\ lastOp' = "registerComponent"
           /\ has(componentInstances, c.name)
           /\ registerComponent(c))
          => /\ componentInstances' = componentInstances
             /\ components' = components
             /\ connections' = connections
             /\ powered' = powered
             /\ switchStatus' = switchStatus ]_vars

\* C26 witness: a registerComponent has returned while every name of the
\* scene was registered before it (each is energized, so each was registered
\* at the last recompute), and B is still the LED registered first
C26_Witness ==
    /\ lastOp = "registerComponent"
    /\ \A n \in SceneNames : isPowered(n)
    /\ componentInstances["B"].type = "LED"

\* C27: unregisterComponent(id) of a registered id leaves the stored switch
\* state of id open, so that a Switch registered again under the name is open
\* until update(id, true).
C27_UnregisterClearsSwitchState ==
    [][ \A id \in SceneNames :
          (/\ lastOp' = "unregisterComponent"
           /\ has(componentInstances, id)
           /\ unregisterComponent(id))
          => ~ switchOn(switchStatus', id) ]_vars

\* C29: addConnection(a, b) never turns an energized component off.
C29_AddConnectionKeepsPower ==
    [][ \A a, b \in Names :
          (lastOp' \in {"addConnection", "addConnectionSelf"}
           /\ addConnection(a, b))
          => \A id \in Names : isPowered(id) => isPoweredIn(powered', id) ]_vars

\* the manager that holds the slot after a sequence of calls, as the
\* singleton rule has it: an onAwake takes the slot only when it is empty,
\* a destroy empties it only when the destroyed object holds it
RECURSIVE Holder(_)
Holder(calls) ==
    IF calls = <<>> THEN null
    ELSE LET before == Holder(SubSeq(calls, 1, Len(calls) - 1))
             call == calls[Len(calls)]
         IN  IF call[1] = "onAwake"
             THEN IF before = null THEN call[2] ELSE before
             ELSE IF before = call[2] THEN null ELSE before

\* C28: after any interleaving of onAwake and destroy calls on several
\* manager objects, instance is null or the object whose onAwake ran first
\* while instance was null; onAwake of another object never replaces the
\* instance and destroy of an object that is not the instance never clears
\* it.
C28_SingleActiveManager ==
    /\ [](instance = Holder(managerCalls))
    /\ [][ \A m \in ManagerObjects :
             /\ (onAwake(m) /\ instance # null) => instance' = instance
             /\ (destroy(m) /\ instance # m) => instance' = instance
             /\ (destroy(m) /\ instance = m) => instance' = null
             /\ (onAwake(m) /\ instance = null) => instance' = m ]_allVars

\* C28 witness: M1 woke up first, M2 woke up while M1 held the slot and was
\* then destroyed, and M1 is still the instance
C28_Witness ==
    /\ instance = "M1"
    /\ managerCalls = << <<"onAwake", "M1">>, <<"onAwake", "M2">>,
                         <<"destroy", "M2">> >>

\* C30: a Component object that is registered (the first to register under
\* its scene name) stays registered, in componentInstances and in
\* components and with its connections, through every step that does not
\* destroy that object itself, the onDestroy of another object of the same
\* name included.
C30_FirstRegisteredOutlivesNamesake ==
    [][ \A o \in SceneComponents :
          (/\ has(componentInstances, o.name)
           /\ componentInstances[o.name] = o
           /\ objects'[o] = "awake")
          => /\ has(componentInstances', o.name)
             /\ componentInstances'[o.name] = o
             /\ includes(components', o.name)
             /\ \A i \in 1..Len(connections) :
                   o.name \in {connections[i][1], connections[i][2]}
                   => includes(connections', connections[i]) ]_allVars

----------------------------------------------------------------------------
\* C31: startConnection is null exactly when no connection has been added
\* since construction or the last resetGraph: it is null at the start and
\* after resetGraph, stays null through every step that adds no connection,
\* becomes the added pair at the first step that adds one, and from then on
\* is changed by no operation other than resetGraph.
C31_StartConnectionIsFirstAdded ==
    [][ /\ lastOp' = "resetGraph" => startConnection' = null
        /\ (lastOp' # "resetGraph" /\ startConnection # null)
              => startConnection = startConnection'
        /\ (lastOp' # "resetGraph" /\ startConnection = null)
              => IF Len(connections') > Len(connections)
                 THEN connections'[Len(connections')] = startConnection'
                 ELSE startConnection' = null ]_vars

\* C31 witness: the first connection was removed and another one added, and
\* startConnection is still the pair added first
C31_Witness ==
    /\ lastOp = "addConnection"
    /\ startConnection = <<"A", "B">>
    /\ connections = << <<"B", "C">> >>

\* C32 as stated: startConnection is null or an entry of connections.
C32_StartConnectionIsAnEntry ==
    startConnection = null \/ includes(connections, startConnection)

\* C32 as amended: startConnection is null only while connections is empty;
\* the pair it holds stops being an entry of connections only in a
\* removeConnection, removeConnections, unregisterComponent or resetGraph,
\* and the three removals leave the removed pair in startConnection.
C32_StartConnectionOutlivesRemoval ==
    /\ [](startConnection = null => connections = <<>>)
    /\ [][ (/\ startConnection # null
            /\ includes(connections, startConnection)
            /\ ~ includes(connections', startConnection))
           => /\ lastOp' \in {"removeConnection", "removeConnections",
                               "unregisterComponent", "resetGraph"}
              /\ lastOp' # "resetGraph"
                    => startConnection = startConnection' ]_vars

\* C32 witness: removeConnections has taken the first connection out of a
\* list of two, and startConnection still holds it
C32_Witness ==
    /\ lastOp = "removeConnections"
    /\ startConnection # null
    /\ ~ includes(connections, startConnection)
    /\ Len(connections) = 1

\* C33: every key of componentInstances is a member of components, and
\* components contains no name twice.
C33_InstancesAreComponentsOnce ==
    /\ \A n \in DOMAIN componentInstances : includes(components, n)
    /\ \A i, j \in 1..Len(components) :
          i # j => components[i] # components[j]

\* C33 witness: a registered name has been unregistered while two other
\* names stay registered, next to a name that addConnection added
C33_Witness ==
    /\ lastOp = "unregisterComponent"
    /\ Cardinality(DOMAIN componentInstances) = 2
    /\ Len(components) = 3

\* C34: findCycles returns on every graph the operations build, having
\* entered findCyclesDFS at most once per component (and once for each
\* component); every walk along the parent pointers stops at the target of
\* its back edge; the recursion stack is empty at the return.
C34_FindCyclesTerminates ==
    LET st == findCyclesState(components, connections) IN
    /\ st.recursionStack = {}
    /\ \A i, j \in 1..Len(st.entries) : i # j => st.entries[i] # st.entries[j]
    /\ Range(st.entries) = Range(components)
    /\ \A i \in 1..Len(st.walks) : st.walks[i][1] = st.walks[i][2]

\* C34 witness: findCycles has entered all four components and walked the
\* parent pointers for two back edges
C34_Witness ==
    LET st == findCyclesState(components, connections) IN
    /\ lastOp = "addConnection"
    /\ Len(st.entries) = 4
    /\ Len(st.walks) = 2
    /\ Len(st.cycles) = 2

\* C35: for a LightToggler with both light objects attached, from onAwake
\* on exactly one of lightObject.enabled and lightOffObject.enabled is true
\* and lightObject.enabled equals previousPoweredState; after every
\* onUpdate with a manager present lightObject.enabled equals
\* (manager.powered[scene object name] === true).
C35_LightObjectsFollowPower ==
    /\ []((lightToggler.awake /\ lightToggler.hasValidLightObjects)
            => /\ lightToggler.lightObject # lightToggler.lightOffObject
               /\ lightToggler.lightObject = lightToggler.previousPoweredState)
    /\ [][ (/\ LightTogglerOnUpdate
            /\ lightToggler.hasValidLightObjects
            /\ instance # null)
           => lightToggler'.lightObject = isPoweredIn(powered, TogglerName)
         ]_allVars

\* C35 witness: a frame has switched the light on, and C has lost its power
\* since
C35_Witness ==
    /\ lightToggler.awake
    /\ lightToggler.hasValidLightObjects
    /\ lightToggler.lightObject
    /\ ~ lightToggler.lightOffObject
    /\ ~ isPowered(TogglerName)
    /\ lastOp = "removeConnection"

----------------------------------------------------------------------------
\* C36: whenever a drag of a SimpleSnapBehavior ends while the object
\* overlaps at least one other object (entered and not left since), the
\* object is moved to the position of the earliest-entered of them, also
\* when the overlap began before the drag started.
C36_DragEndSnapsToEarliestContact ==
    [][ (/\ SimpleDragEnd
         /\ simpleSnap.isActive
         /\ simpleSnap.touching # <<>>)
        => simpleSnap'.snappedTo = simpleSnap.touching[1] ]_allVars

----------------------------------------------------------------------------
\* C37: at every drag end of a WireSnapBehavior each sphere's overlap list
\* holds exactly the targets the sphere has entered and not left since, so
\* a sphere that still overlaps a target is snapped to the earliest of
\* them at this drag end too.
C37_DragEndSeesEveryContact ==
    [][ (WireDragEnd /\ wireSnap.isDragging)
        => /\ Range(wireSnap.firstSphereOverlappingTargets)
                 = Range(wireSnap.firstTouching)
           /\ Range(wireSnap.secondSphereOverlappingTargets)
                 = Range(wireSnap.secondTouching)
           /\ wireSnap.firstTouching # <<>>
                 => wireSnap'.firstSnappedTo # null
           /\ wireSnap.secondTouching # <<>>
                 => wireSnap'.secondSnappedTo # null ]_allVars

----------------------------------------------------------------------------
\* C38: a drag end of a SimpleSnapBehavior or a WireSnapBehavior is
\* processed at most once per drag: handleDragEnd always leaves the drag
\* flag false, and when no drag is active (an end after an end, or an end
\* without a start) it moves nothing and changes no field.
C38_DragEndProcessedOnce ==
    [][ /\ SimpleDragEnd
            => /\ ~ simpleSnap'.isActive
               /\ ~ simpleSnap.isActive
                    => /\ simpleSnap'.snappedTo = null
                       /\ simpleSnap'.currentOverlappingTargets
                             = simpleSnap.currentOverlappingTargets
        /\ WireDragEnd
            => /\ ~ wireSnap'.isDragging
               /\ ~ wireSnap.isDragging
                    => /\ wireSnap'.firstSnappedTo = null
                       /\ wireSnap'.secondSnappedTo = null
                       /\ wireSnap'.firstSphereOverlappingTargets
                             = wireSnap.firstSphereOverlappingTargets
                       /\ wireSnap'.secondSphereOverlappingTargets
                             = wireSnap.secondSphereOverlappingTargets
                       /\ wireSnap'.activeDragSource = wireSnap.activeDragSource
      ]_allVars

\* A drag end has just been ignored: the list is not empty, yet nothing was
\* moved.
C38_Witness ==
    /\ simpleSnap.lastEvent = "dragEnd"
    /\ ~ simpleSnap.isActive
    /\ simpleSnap.currentOverlappingTargets = <<"T2", "T1">>
    /\ simpleSnap.snappedTo = null

----------------------------------------------------------------------------
\* C39: in DynamicSnapAnyCollider, while a drag is active touchId is the id
\* of the touch that started it; a touch start during an active drag
\* changes neither touchId nor the overlap list; a touch end with another
\* id is ignored; isDragging is false exactly when touchId is -1.
C39_TouchIdIsTheStartingTouch ==
    /\ [](dynamicSnap.isDragging
             => dynamicSnap.touchId = dynamicSnap.startedBy)
    /\ [](dynamicSnap.isDragging <=> dynamicSnap.touchId # -1)
    /\ [](dynamicSnap.isDragging <=> dynamicSnap.startedBy # -1)
    /\ [][ /\ (dynamicSnap'.lastEvent = "touchStart" /\ dynamicSnap.isDragging)
               => /\ dynamicSnap'.touchId = dynamicSnap.touchId
                  /\ dynamicSnap'.currentOverlappingTargets
                        = dynamicSnap.currentOverlappingTargets
           /\ (/\ dynamicSnap'.lastEvent = "touchEnd"
               /\ dynamicSnap'.lastTouchId # dynamicSnap.touchId)
               => /\ dynamicSnap'.isDragging = dynamicSnap.isDragging
                  /\ dynamicSnap'.touchId = dynamicSnap.touchId
                  /\ dynamicSnap'.currentOverlappingTargets
                        = dynamicSnap.currentOverlappingTargets
                  /\ dynamicSnap'.snappedTo = null ]_dynamicSnap

\* During the drag of touch 0, over T3, the end of touch 1 has been ignored.
C39_Witness ==
    /\ dynamicSnap.isDragging
    /\ dynamicSnap.touchId = 0
    /\ dynamicSnap.lastEvent = "touchEnd"
    /\ dynamicSnap.lastTouchId = 1
    /\ dynamicSnap.currentOverlappingTargets = <<"T3">>

----------------------------------------------------------------------------
\* C40: in the three snap scripts every overlap list holds each target at
\* most once and never the script's own object, nor, for the
\* WireSnapBehavior, the wire or one of its connector spheres.
Once(list) == \A i, j \in 1..Len(list) : i # j => list[i] # list[j]

C40_OverlapListsHoldTargetsOnce ==
    /\ Once(simpleSnap.currentOverlappingTargets)
    /\ SelfObject \notin Range(simpleSnap.currentOverlappingTargets)
    /\ Once(dynamicSnap.currentOverlappingTargets)
    /\ SelfObject \notin Range(dynamicSnap.currentOverlappingTargets)
    /\ Once(wireSnap.firstSphereOverlappingTargets)
    /\ Once(wireSnap.secondSphereOverlappingTargets)
    /\ Range(wireSnap.firstSphereOverlappingTargets) \cap WireOwnObjects = {}
    /\ Range(wireSnap.secondSphereOverlappingTargets) \cap WireOwnObjects = {}

\* T1 has just been entered a second time: T2 stands behind it in the list.
C40_Witness ==
    /\ simpleSnap.lastEvent = "overlapEnter"
    /\ simpleSnap.lastOther = "T1"
    /\ simpleSnap.currentOverlappingTargets = <<"T1", "T2">>

====
